---- MODULE Spec2Model ----
(***************************************************************************)
(* OpsBot agent: the monitoring tick, the incident pipeline (analysis,     *)
(* remediation, notification, verification) and the remediation engine,    *)
(* as a single-threaded state machine.  The agent runs on one thread (the  *)
(* schedule loop), so every step is an action guarded by the position pc.  *)
(***************************************************************************)
EXTENDS Integers, Sequences, FiniteSets, TLC

(* ----------------------------- bounds --------------------------------- *)
\* The remediation engine on its own sees up to MaxContainers running
\* containers and MaxProcs high-CPU processes; inside the monitoring loop the
\* host shows up to LoopContainers and LoopProcs, over MaxIncidents incidents,
\* and only the first LoopFailing temp commands of a disk cleanup can fail.
\* Under fair scheduling the loop is followed over LiveIncidents incidents.
\* The kill sweep is also run against listings of up to MaxCandidates
\* high-CPU processes, more than the sweep takes.
MaxContainers == 5
MaxProcs == 2
LoopContainers == 1
LoopProcs == 1
LoopFailing == 1
MaxIncidents == 2
LiveIncidents == 1
MaxCandidates == 7

(* ------------------------ program constants --------------------------- *)
cpu_threshold == 80
memory_threshold == 85
disk_threshold == 90
network_threshold == 1000000
CpuHighSeverity == 90
MemoryHighSeverity == 95
CpuRestartCap == 3
MemoryRestartCap == 2
HeadLimit == 5

(* --------------------------- dictionaries ----------------------------- *)
\* Python's None, and dict.get(key, default) on a dict held as a record.
NoneVal == [none |-> TRUE]
Get(d, k, default) == IF k \in DOMAIN d THEN d[k] ELSE default

Range(s) == { s[i] : i \in 1..Len(s) }
Min(a, b) == IF a < b THEN a ELSE b
Take(s, n) == SubSeq(s, 1, Min(n, Len(s)))

(* ------------------------- process names ------------------------------ *)
\* A process name is a sequence of characters, so that lower() and the
\* substring test of the sweep are computed, not assumed.
Lower(c) ==
    CASE c = "I" -> "i"
      [] c = "S" -> "s"
      [] c = "K" -> "k"
      [] OTHER -> c
LowerName(name) == [i \in 1..Len(name) |-> Lower(name[i])]
Contains(name, pat) ==
    \E i \in 1..(Len(name) - Len(pat) + 1) : SubSeq(name, i, i + Len(pat) - 1) = pat

critical_names ==
    { <<"s","y","s","t","e","m","d">>, <<"k","e","r","n","e","l">>, <<"i","n","i","t">> }

IsCriticalNoLower(process_name) ==
    \E critical \in critical_names : Contains(process_name, critical)
IsCritical(process_name) ==
    \E critical \in critical_names : Contains(LowerName(process_name), critical)

\* Names the process listing can show.
ProcNames ==
    { <<"s","y","s","t","e","m","d">>,
      <<"/","I","n","i","t">>,
      <<"k","e","r","n","e","l","-","x">>,
      <<"p","y","t","h","o","n">> }

ContainerPool == <<"c1", "c2", "c3", "c4", "c5", "c6">>

(* --------------------------- monitor.py ------------------------------- *)
\* get_cpu_usage and the three other getters: a query that fails is answered
\* with 0.0.
MetricValue(poll) == IF poll.ok THEN poll.raw ELSE 0

\* What one query of the metric source can end in, given its readings.
Polls(readings) == { [ok |-> FALSE, raw |-> 0] } \cup { [ok |-> TRUE, raw |-> r] : r \in readings }

CheckAnomaliesFirstBreach(cpu_usage, memory_usage, disk_usage, network_usage) ==
    IF cpu_usage > cpu_threshold
      THEN << [type |-> "CPU_SPIKE", value |-> cpu_usage, threshold |-> cpu_threshold,
               severity |-> IF cpu_usage > CpuHighSeverity THEN "HIGH" ELSE "MEDIUM"] >>
    ELSE IF memory_usage > memory_threshold
      THEN << [type |-> "MEMORY_SPIKE", value |-> memory_usage, threshold |-> memory_threshold,
               severity |-> IF memory_usage > MemoryHighSeverity THEN "HIGH" ELSE "MEDIUM"] >>
    ELSE IF disk_usage > disk_threshold
      THEN << [type |-> "DISK_SPIKE", value |-> disk_usage, threshold |-> disk_threshold,
               severity |-> "HIGH"] >>
    ELSE IF network_usage > network_threshold
      THEN << [type |-> "NETWORK_SPIKE", value |-> network_usage, threshold |-> network_threshold,
               severity |-> "MEDIUM"] >>
    ELSE << >>
CheckAnomalies(cpu_usage, memory_usage, disk_usage, network_usage) ==
    (IF cpu_usage > cpu_threshold
       THEN << [type |-> "CPU_SPIKE", value |-> cpu_usage, threshold |-> cpu_threshold,
                severity |-> IF cpu_usage > CpuHighSeverity THEN "HIGH" ELSE "MEDIUM"] >>
       ELSE << >>)
    \o (IF memory_usage > memory_threshold
       THEN << [type |-> "MEMORY_SPIKE", value |-> memory_usage, threshold |-> memory_threshold,
                severity |-> IF memory_usage > MemoryHighSeverity THEN "HIGH" ELSE "MEDIUM"] >>
       ELSE << >>)
    \o (IF disk_usage > disk_threshold
       THEN << [type |-> "DISK_SPIKE", value |-> disk_usage, threshold |-> disk_threshold,
                severity |-> "HIGH"] >>
       ELSE << >>)
    \o (IF network_usage > network_threshold
       THEN << [type |-> "NETWORK_SPIKE", value |-> network_usage, threshold |-> network_threshold,
                severity |-> "MEDIUM"] >>
       ELSE << >>)

\* Readings the metric source can answer with: at the threshold and above it.
CpuReadings == {80, 81}
MemoryReadings == {85, 86}
DiskReadings == {90, 91}
NetworkReadings == {1000000, 1000001}

AlertTypes(as) == { as[i].type : i \in 1..Len(as) }

(* ------------------------- remediation.py ----------------------------- *)
\* restart_docker_container: the result for each way the restart can end.
RestartStatuses == {"running", "exited", "not_found", "error"}
RestartResultWhenIssued(container_name, status) ==
    IF status \in {"running", "exited"}
      THEN [success |-> TRUE, message |-> "restarted", target |-> container_name,
            action |-> "CONTAINER_RESTART"]
      ELSE [success |-> FALSE, message |-> "error", target |-> container_name]
RestartResult(container_name, status) ==
    CASE status = "running" ->
           [success |-> TRUE, message |-> "restarted", target |-> container_name,
            action |-> "CONTAINER_RESTART"]
      [] status = "exited" ->
           [success |-> FALSE, message |-> "failed_to_start", target |-> container_name,
            action |-> "CONTAINER_RESTART_FAILED"]
      [] status = "not_found" ->
           [success |-> FALSE, message |-> "not_found", target |-> container_name]
      [] OTHER ->
           [success |-> FALSE, message |-> "error", target |-> container_name]

\* kill_high_cpu_processes: the loop over the parsed lines of the listing.
\* outcome[i] is what "kill -9" does for line i: "accepted", "rejected"
\* (CalledProcessError) or "fault" (any other exception).  Every line the
\* signal was sent for is kept, with whether the signal was accepted.
SignalOutcomes == {"accepted", "rejected", "fault"}
Signal(line, accepted) == [pid |-> line.pid, name |-> line.name, accepted |-> accepted]
RECURSIVE SweepLoop(_, _, _, _)
SweepLoop(lines, outcome, i, acc) ==
    IF i > Len(lines) THEN acc
    ELSE IF IsCritical(lines[i].name) THEN SweepLoop(lines, outcome, i + 1, acc)
    ELSE CASE outcome[i] = "accepted" ->
                SweepLoop(lines, outcome, i + 1,
                          [acc EXCEPT !.signalled = Append(@, Signal(lines[i], TRUE)),
                                      !.killed = Append(@, lines[i])])
           [] outcome[i] = "rejected" ->
                SweepLoop(lines, outcome, i + 1,
                          [acc EXCEPT !.signalled = Append(@, Signal(lines[i], FALSE))])
           [] OTHER -> [acc EXCEPT !.fault = TRUE]

SweepOutcome(acc) ==
    IF acc.fault
      THEN [result |-> [success |-> FALSE, message |-> "error_killing"],
            signalled |-> acc.signalled]
      ELSE [result |-> [success |-> TRUE, message |-> "killed",
                        killed_processes |-> Len(acc.killed), action |-> "PROCESS_KILL"],
            signalled |-> acc.signalled]

KillHighCpuProcessesWholeListing(procs, outcome, ps_fault) ==
    IF ps_fault
      THEN [result |-> [success |-> FALSE, message |-> "error_killing"], signalled |-> << >>]
    ELSE IF procs = << >>
      THEN [result |-> [success |-> FALSE, message |-> "no_high_cpu"], signalled |-> << >>]
    ELSE SweepOutcome(SweepLoop(procs, outcome, 1,
                      [signalled |-> << >>, killed |-> << >>, fault |-> FALSE]))
KillHighCpuProcesses(procs, outcome, ps_fault) ==
    IF ps_fault
      THEN [result |-> [success |-> FALSE, message |-> "error_killing"], signalled |-> << >>]
    ELSE IF Take(procs, HeadLimit) = << >>
      THEN [result |-> [success |-> FALSE, message |-> "no_high_cpu"], signalled |-> << >>]
    ELSE SweepOutcome(SweepLoop(Take(procs, HeadLimit), outcome, 1,
                      [signalled |-> << >>, killed |-> << >>, fault |-> FALSE]))

\* The high-CPU process listings: pid i for the i-th line.
ProcListings(max_procs) ==
    UNION { { [i \in 1..n |-> [pid |-> i, name |-> f[i]]] : f \in [1..n -> ProcNames] }
            : n \in 0..max_procs }

\* Listings of up to max_candidates processes that are not protected.
LongListings(max_candidates) ==
    { [i \in 1..n |-> [pid |-> i, name |-> <<"p","y","t","h","o","n">>]] :
        n \in 0..max_candidates }

\* clear_disk_space: docker pruning (when a client exists), then the temp
\* commands in order.  cmd[i] is "ok", "failed" (CalledProcessError) or
\* "fault" (any other exception, caught by the outer handler).
TempCommands == <<"rm_tmp", "journal_vacuum", "apt_autoremove", "apt_autoclean">>
CommandOutcomes == {"ok", "failed", "fault"}
\* The outcomes of the temp commands when only the first max_failing of them
\* can end otherwise than "ok".
CommandRuns(max_failing) ==
    { cmd \in [1..Len(TempCommands) -> CommandOutcomes] :
        \A i \in 1..Len(TempCommands) : i > max_failing => cmd[i] = "ok" }
RECURSIVE TempLoop(_, _, _)
TempLoop(cmd, i, taken) ==
    IF i > Len(TempCommands) THEN [taken |-> taken, fault |-> FALSE]
    ELSE CASE cmd[i] = "ok" -> TempLoop(cmd, i + 1, Append(taken, TempCommands[i]))
           [] cmd[i] = "failed" -> TempLoop(cmd, i + 1, taken)
           [] OTHER -> [taken |-> taken, fault |-> TRUE]

\* The sub-operations of one cleanup that completed, in the order they ran.
ClearDiskCompleted(client, prune_ok, cmd) ==
    TempLoop(cmd, 1, IF client /\ prune_ok THEN <<"docker_cleanup">> ELSE << >>).taken

ClearDiskSpace(client, prune_ok, cmd) ==
    LET start == IF client /\ prune_ok THEN <<"docker_cleanup">> ELSE << >>
        run == TempLoop(cmd, 1, start)
    IN  IF run.fault
          THEN [success |-> FALSE, message |-> "cleanup_failed"]
          ELSE [success |-> TRUE, message |-> "cleanup_completed",
                actions_taken |-> run.taken, action |-> "DISK_CLEANUP"]

\* execute_remediation, lines 179-183: the safety gate.
GatedAllowByDefault(analysis) ==
    LET confidence == Get(analysis, "confidence", "HIGH")
        requires_human == Get(analysis, "requires_human_intervention", FALSE)
    IN  requires_human \/ confidence = "LOW"
GatedBoth(analysis) ==
    LET confidence == Get(analysis, "confidence", "LOW")
        requires_human == Get(analysis, "requires_human_intervention", TRUE)
    IN  requires_human /\ confidence = "LOW"
Gated(analysis) ==
    LET confidence == Get(analysis, "confidence", "LOW")
        requires_human == Get(analysis, "requires_human_intervention", TRUE)
    IN  requires_human \/ confidence = "LOW"

AlertTypeOf(analysis) == Get(Get(analysis, "alert_data", [x |-> 0]), "type", "UNKNOWN")

AllSucceeded(results) == \A i \in 1..Len(results) : Get(results[i], "success", FALSE)
AnySucceeded(results) == \E i \in 1..Len(results) : Get(results[i], "success", FALSE)

\* The diagnostic verdicts: each of the two fields the gate reads may be absent.
Confidences == {"HIGH", "MEDIUM", "LOW"}
Verdicts ==
    { [confidence |-> c, requires_human_intervention |-> h] : c \in Confidences, h \in BOOLEAN }
    \cup { [confidence |-> c] : c \in Confidences }
    \cup { [requires_human_intervention |-> h] : h \in BOOLEAN }
    \cup { [root_cause |-> "unknown"] }

(* --------------------------- analyzer.py ------------------------------ *)
\* What the chat-completion call and json.loads give analyze_logs_with_llm:
\* "error" when the call raises or the content is not JSON, "not_object" when
\* the content is JSON but not an object, "object" with the verdict otherwise.
LlmReplies ==
    { [kind |-> "error"], [kind |-> "not_object"] }
    \cup { [kind |-> "object", value |-> v] : v \in Verdicts }

\* analyze_logs_with_llm, lines 90-99: the verdict of the except clause.
FallbackVerdict ==
    [root_cause |-> "unable_to_analyze", confidence |-> "LOW",
     requires_human_intervention |-> TRUE]

\* analyze_logs_with_llm, lines 52-99, for a reply that is an object or an error.
AnalyzeLogsWithLlm(reply) ==
    IF reply.kind = "error" THEN FallbackVerdict ELSE reply.value

(* ------------------------------ state --------------------------------- *)
VARIABLES
    monitoring_enabled,        \* OpsBotAgent.monitoring_enabled
    auto_remediation_enabled,  \* OpsBotAgent.auto_remediation_enabled
    docker_client,             \* RemediationEngine.docker_client is not None
    slack_client,              \* NotificationManager.slack_client is not None
    webhook_url,               \* NotificationManager.webhook_url is not None
    thresholds,                \* OpsBotAgent.config: the threshold of each class
    pc,                        \* position of the single agent thread
    alerts,                    \* alerts of the tick not yet handled
    alert_data,                \* handle_alert: the alert being handled
    analysis_result,           \* handle_alert: the verdict, or None
    remediation_result,        \* handle_alert: the remediation outcome, or None
    containers,                \* execute_remediation: the listing, or None
    todo,                      \* execute_remediation: containers still to restart
    remediation_results,       \* execute_remediation: the step results so far
    prims,                     \* history: primitives invoked for this incident
    signalled,                 \* history: processes "kill -9" was run on
    notifications,             \* history: notifications emitted for this incident
    incidents_log,             \* incidents.log, one digest per line
    verified,                  \* verify_remediation: "none", "resolved" or "persists"
    repoll,                    \* history: what the verification re-poll saw
    events,                    \* history: the steps of this incident, in order
    journal,                   \* what handle_alert has logged for this incident
    aborted,                   \* history: the incident ended in an except clause
    completed,                 \* history: the cleanup sub-operations that completed
    observed,                  \* history: how each restart of this run ended
    diagnosis,                 \* history: what the diagnostic backend answered with
    notification_results,      \* handle_alert: what send_notification returned, or None
    attempted,                 \* history: the channels send_notification has tried
    remediating,               \* history: the incidents whose remediation is in progress
    breaches,                  \* history: the classes whose reading breached, this tick
    handled,                   \* history: the alerts handed to handle_alert, this tick
    polled,                    \* history: what the queries of the tick answered, or None
    remediation_outcome,       \* history: "none", "skipped", "failed" or "succeeded"
    earlier,                   \* history: the previous run of execute_remediation, or None
    incidents                  \* history: incidents started so far

vars == << monitoring_enabled, auto_remediation_enabled, docker_client, slack_client,
           pc, alerts, alert_data, analysis_result, remediation_result, containers,
           todo, remediation_results, prims, signalled, notifications, incidents_log,
           verified, repoll, events, aborted, remediation_outcome, completed, observed, diagnosis,
           remediating, breaches, handled, webhook_url, notification_results, attempted,
           earlier, thresholds, polled, journal, incidents >>

tick == << breaches, handled, polled >>
trail == << completed, observed, diagnosis, notification_results, attempted >>
config == << auto_remediation_enabled, docker_client, slack_client, webhook_url,
             thresholds >>
incident == << alert_data, analysis_result, remediation_result, containers, todo,
               remediation_results, prims, signalled, notifications, verified,
               repoll, events, journal, aborted, remediation_outcome, trail >>

\* setup_logging, lines 73-84: a record of the log, as the format string lays
\* it out.
LogRecord(levelname, message) ==
    [asctime |-> "now", name |-> "opsbot_agent", levelname |-> levelname,
     message |-> message]

\* handle_alert, lines 117-123: what is logged up to the end of the analysis.
JournalAfterAnalysis ==
    << LogRecord("WARNING", "processing_alert"),
       LogRecord("INFO", "starting_log_analysis"),
       LogRecord("INFO", "analysis_completed") >>

\* load_config, lines 50-61: the thresholds of the default configuration.  The
\* file has no key for the network threshold; it is given here the value the
\* monitor uses.
DefaultThresholds ==
    [CPU_SPIKE |-> 80, MEMORY_SPIKE |-> 85, DISK_SPIKE |-> 90, NETWORK_SPIKE |-> 1000000]

FreshIncident ==
    /\ analysis_result' = NoneVal
    /\ remediation_result' = NoneVal
    /\ containers' = NoneVal
    /\ todo' = << >>
    /\ remediation_results' = << >>
    /\ prims' = << >>
    /\ signalled' = << >>
    /\ notifications' = 0
    /\ verified' = "none"
    /\ repoll' = NoneVal
    /\ events' = << >>
    /\ aborted' = FALSE
    /\ remediation_outcome' = "none"
    /\ completed' = << >>
    /\ observed' = << >>
    /\ diagnosis' = "none"
    /\ notification_results' = NoneVal
    /\ attempted' = << >>

Init ==
    /\ monitoring_enabled = TRUE
    /\ auto_remediation_enabled \in BOOLEAN
    /\ docker_client \in BOOLEAN
    /\ slack_client \in BOOLEAN
    /\ webhook_url = FALSE
    /\ thresholds = DefaultThresholds
    /\ pc = "idle"
    /\ alerts = << >>
    /\ alert_data = NoneVal
    /\ analysis_result = NoneVal
    /\ remediation_result = NoneVal
    /\ containers = NoneVal
    /\ todo = << >>
    /\ remediation_results = << >>
    /\ prims = << >>
    /\ signalled = << >>
    /\ notifications = 0
    /\ incidents_log = << >>
    /\ verified = "none"
    /\ repoll = NoneVal
    /\ events = << >>
    /\ journal = << >>
    /\ aborted = FALSE
    /\ remediation_outcome = "none"
    /\ completed = << >>
    /\ observed = << >>
    /\ diagnosis = "none"
    /\ notification_results = NoneVal
    /\ attempted = << >>
    /\ remediating = {}
    /\ breaches = {}
    /\ handled = << >>
    /\ earlier = NoneVal
    /\ polled = NoneVal
    /\ incidents = 0

(* --------------------------- opsbot_agent.py -------------------------- *)
\* The query check_anomalies makes for an alert class, and the threshold it
\* compares the answer with.
ReadingOf(alert_type, cpu, mem, disk, net) ==
    CASE alert_type = "CPU_SPIKE" -> cpu
      [] alert_type = "MEMORY_SPIKE" -> mem
      [] alert_type = "DISK_SPIKE" -> disk
      [] OTHER -> net
ThresholdOf(alert_type) ==
    CASE alert_type = "CPU_SPIKE" -> cpu_threshold
      [] alert_type = "MEMORY_SPIKE" -> memory_threshold
      [] alert_type = "DISK_SPIKE" -> disk_threshold
      [] OTHER -> network_threshold

\* The classes whose reading, as the metric source answered it, is above the
\* threshold of the class.
AlertClasses == {"CPU_SPIKE", "MEMORY_SPIKE", "DISK_SPIKE", "NETWORK_SPIKE"}
Breaches(cpu, mem, disk, net) ==
    { t \in AlertClasses :
        ReadingOf(t, cpu, mem, disk, net).ok
        /\ ReadingOf(t, cpu, mem, disk, net).raw > ThresholdOf(t) }

\* A tick that polls whatever the flag says.
MonitorSystemIgnoringFlag(max_incidents) ==
    /\ pc = "idle"
    /\ \E c \in Polls(CpuReadings), m \in Polls(MemoryReadings),
          d \in Polls(DiskReadings), n \in Polls(NetworkReadings) :
         LET found == CheckAnomalies(MetricValue(c), MetricValue(m),
                                     MetricValue(d), MetricValue(n))
         IN  /\ incidents + Len(found) <= max_incidents
             /\ alerts' = found
             /\ breaches' = Breaches(c, m, d, n)
             /\ handled' = << >>
             /\ polled' = [CPU_SPIKE |-> c, MEMORY_SPIKE |-> m,
                           DISK_SPIKE |-> d, NETWORK_SPIKE |-> n]
             /\ pc' = "for_alert"
    /\ UNCHANGED << monitoring_enabled, config, earlier, remediating, incident, incidents_log,
                    incidents >>
\* monitor_system, lines 86-98: one tick of the scheduler.
MonitorSystem(max_incidents) ==
    /\ pc = "idle"
    /\ IF monitoring_enabled
         THEN \E c \in Polls(CpuReadings), m \in Polls(MemoryReadings),
                 d \in Polls(DiskReadings), n \in Polls(NetworkReadings) :
                LET found == CheckAnomalies(MetricValue(c), MetricValue(m),
                                            MetricValue(d), MetricValue(n))
                IN  /\ incidents + Len(found) <= max_incidents
                    /\ alerts' = found
                    /\ breaches' = Breaches(c, m, d, n)
                    /\ handled' = << >>
                    /\ polled' = [CPU_SPIKE |-> c, MEMORY_SPIKE |-> m,
                                  DISK_SPIKE |-> d, NETWORK_SPIKE |-> n]
                    /\ pc' = "for_alert"
         ELSE UNCHANGED << pc, alerts, tick >>
    /\ UNCHANGED << monitoring_enabled, config, earlier, remediating, incident, incidents_log,
                    incidents >>

\* stop_monitoring, lines 232-235.  The flag is read only at the start of a
\* tick, so a call made while an incident is being handled has the effect of
\* one made when the handler is back in the loop.
StopMonitoring ==
    /\ monitoring_enabled
    /\ pc \in {"idle", "for_alert"}
    /\ monitoring_enabled' = FALSE
    /\ UNCHANGED << config, earlier, pc, alerts, tick, remediating, incident, incidents_log, incidents >>

\* The positions of the thread inside execute_remediation.
RemediationPositions == {"list", "restart", "kill", "disk", "return"}

ForAlertWithoutWaiting ==
    /\ pc = "for_alert" \/ (pc \in RemediationPositions /\ alerts # << >>)
    /\ IF alerts = << >>
         THEN /\ pc' = "idle"
              /\ alert_data' = NoneVal
              /\ breaches' = {}
              /\ handled' = << >>
              /\ journal' = << >>
              /\ UNCHANGED << alerts, incidents >>
         ELSE /\ pc' = "analyze"
              /\ alert_data' = Head(alerts)
              /\ alerts' = Tail(alerts)
              /\ handled' = Append(handled, [type |-> Head(alerts).type, failed |-> FALSE])
              /\ incidents' = incidents + 1
              /\ journal' = << LogRecord("WARNING", "processing_alert") >>
              /\ UNCHANGED breaches
    /\ polled' = NoneVal
    /\ FreshIncident
    /\ UNCHANGED << monitoring_enabled, config, earlier, remediating, incidents_log >>
\* monitor_system, lines 100-106: the loop over the alerts of the tick; each
\* iteration enters handle_alert (lines 111-117) and waits for it to return.
ForAlert ==
    /\ pc = "for_alert"
    /\ IF alerts = << >>
         THEN /\ pc' = "idle"
              /\ alert_data' = NoneVal
              /\ breaches' = {}
              /\ handled' = << >>
              /\ journal' = << >>
              /\ UNCHANGED << alerts, incidents >>
         ELSE /\ pc' = "analyze"
              /\ alert_data' = Head(alerts)
              /\ alerts' = Tail(alerts)
              /\ handled' = Append(handled, [type |-> Head(alerts).type, failed |-> FALSE])
              /\ incidents' = incidents + 1
              /\ journal' = << LogRecord("WARNING", "processing_alert") >>
              /\ UNCHANGED breaches
    /\ polled' = NoneVal
    /\ FreshIncident
    /\ UNCHANGED << monitoring_enabled, config, earlier, remediating, incidents_log >>

\* handle_alert, lines 119-123, with analyzer.analyze_incident: the verdict
\* gets the alert attached; a reply that is not a JSON object makes the
\* attachment raise.
AnalyzeIncident ==
    /\ pc = "analyze"
    /\ \E reply \in LlmReplies :
         /\ diagnosis' = reply.kind
         /\ IF reply.kind = "not_object"
              THEN /\ pc' = "except"
                   /\ journal' = Append(journal, LogRecord("INFO", "starting_log_analysis"))
                   /\ UNCHANGED << analysis_result, events >>
              ELSE LET v == AnalyzeLogsWithLlm(reply)
                   IN  /\ analysis_result' =
                            [k \in DOMAIN v \cup {"alert_data"} |->
                               IF k = "alert_data" THEN alert_data ELSE v[k]]
                       /\ events' = Append(events, "analysis")
                       /\ journal' = journal \o << LogRecord("INFO", "starting_log_analysis"),
                                                  LogRecord("INFO", "analysis_completed") >>
                       /\ pc' = "remediate"
    /\ UNCHANGED << monitoring_enabled, config, earlier, alerts, tick, remediating, alert_data, completed, observed,
                    notification_results, attempted, remediation_result,
                    containers, todo, remediation_results, prims, signalled,
                    notifications, incidents_log, verified, repoll, aborted, remediation_outcome, incidents >>

\* handle_alert, lines 126-127, automated remediation switched off.
SkipRemediation ==
    /\ pc = "remediate"
    /\ ~auto_remediation_enabled
    /\ pc' = "notify"
    /\ UNCHANGED << monitoring_enabled, config, earlier, alerts, tick, remediating, incident, incidents_log, incidents >>

\* Where execute_remediation goes once the restarts of a class are over.
AfterRestartsAlwaysKill(alert_type) == "kill"
AfterRestarts(alert_type) ==
    IF alert_type = "CPU_SPIKE" THEN "kill" ELSE "return"

\* handle_alert, lines 128-129, and execute_remediation, lines 177-215: the
\* gate, then the dispatch on the alert class up to the first primitive.
ExecuteRemediation ==
    /\ pc = "remediate"
    /\ auto_remediation_enabled
    /\ IF Gated(analysis_result)
         THEN /\ remediation_result' =
                   [success |-> FALSE, message |-> "requires_human",
                    reason |-> "low_confidence_or_human"]
              /\ events' = events \o <<"remediation_start", "remediation_end">>
              /\ journal' = journal \o << LogRecord("INFO", "attempting_remediation"),
                                         LogRecord("WARNING", "remediation_failed_or_skipped") >>
              /\ remediation_outcome' = "skipped"
              /\ pc' = "notify"
              /\ UNCHANGED remediating
         ELSE /\ events' = Append(events, "remediation_start")
              /\ journal' = Append(journal, LogRecord("INFO", "attempting_remediation"))
              /\ remediating' = remediating \cup {incidents}
              /\ pc' = CASE AlertTypeOf(analysis_result) = "CPU_SPIKE" ->
                              IF docker_client THEN "list" ELSE "kill"
                         [] AlertTypeOf(analysis_result) = "MEMORY_SPIKE" ->
                              IF docker_client THEN "list" ELSE "return"
                         [] AlertTypeOf(analysis_result) = "DISK_SPIKE" -> "disk"
                         [] OTHER -> "return"
              /\ UNCHANGED << remediation_result, remediation_outcome >>
    /\ UNCHANGED << monitoring_enabled, config, earlier, alerts, tick, alert_data, trail, analysis_result,
                    containers, todo, remediation_results, prims, signalled,
                    notifications, incidents_log, verified, repoll, aborted, incidents >>

RestartCapUsedUp(alert_type) ==
    IF earlier # NoneVal THEN 0
    ELSE IF alert_type = "CPU_SPIKE" THEN CpuRestartCap ELSE MemoryRestartCap
RestartCapSwapped(alert_type) ==
    IF alert_type = "CPU_SPIKE" THEN MemoryRestartCap ELSE CpuRestartCap
RestartCap(alert_type) == IF alert_type = "CPU_SPIKE" THEN CpuRestartCap ELSE MemoryRestartCap

\* execute_remediation, lines 195-196 and 207-208: docker_client.containers.list()
\* and the slice; the call is outside every try block, so a fault leaves
\* execute_remediation and lands in handle_alert's except clause.
ListContainers(max_containers) ==
    /\ pc = "list"
    /\ prims' = Append(prims, [kind |-> "list", target |-> "docker"])
    /\ \/ \E n \in 0..max_containers :
            LET listing == Take(ContainerPool, n)
                slice == Take(listing, RestartCap(AlertTypeOf(analysis_result)))
            IN  /\ containers' = [names |-> listing]
                /\ todo' = slice
                /\ pc' = IF slice = << >>
                            THEN AfterRestarts(AlertTypeOf(analysis_result))
                            ELSE "restart"
                /\ UNCHANGED remediating
       \/ /\ pc' = "except"
          /\ remediating' = remediating \ {incidents}
          /\ UNCHANGED << containers, todo >>
    /\ UNCHANGED << monitoring_enabled, config, earlier, alerts, tick, alert_data, trail, analysis_result,
                    remediation_result, remediation_results, signalled, notifications,
                    incidents_log, verified, repoll, events, journal, aborted, remediation_outcome, incidents >>

\* restart_docker_container, lines 19-52, for the next container of the slice.
RestartDockerContainer ==
    /\ pc = "restart"
    /\ todo # << >>
    /\ \E status \in RestartStatuses :
         /\ remediation_results' =
               Append(remediation_results, RestartResult(Head(todo), status))
         /\ observed' = Append(observed, status)
    /\ prims' = Append(prims, [kind |-> "restart", target |-> Head(todo)])
    /\ todo' = Tail(todo)
    /\ pc' = IF Tail(todo) = << >> THEN AfterRestarts(AlertTypeOf(analysis_result))
                                   ELSE "restart"
    /\ UNCHANGED << monitoring_enabled, config, earlier, alerts, tick, remediating, alert_data, completed, diagnosis, notification_results, attempted, analysis_result,
                    remediation_result, containers, signalled, notifications,
                    incidents_log, verified, repoll, events, journal, aborted, remediation_outcome, incidents >>

\* kill_high_cpu_processes, lines 95-133, called at lines 201-202, for the
\* given listings and the given ways a kill can end.
KillHighCpuOver(listings, outcomes) ==
    /\ pc = "kill"
    /\ \E procs \in listings, ps_fault \in BOOLEAN :
       \E outcome \in [1..Len(procs) -> outcomes] :
         LET sweep == KillHighCpuProcesses(procs, outcome, ps_fault)
         IN  /\ remediation_results' = Append(remediation_results, sweep.result)
             /\ signalled' = sweep.signalled
    /\ prims' = Append(prims, [kind |-> "kill", target |-> "sweep"])
    /\ pc' = "return"
    /\ UNCHANGED << monitoring_enabled, config, earlier, alerts, tick, remediating, alert_data, trail, analysis_result,
                    remediation_result, containers, todo, notifications,
                    incidents_log, verified, repoll, events, journal, aborted, remediation_outcome, incidents >>

KillHighCpu(max_procs) == KillHighCpuOver(ProcListings(max_procs), SignalOutcomes)

\* clear_disk_space, lines 135-175, called at lines 214-215.
ClearDisk(max_failing) ==
    /\ pc = "disk"
    /\ \E prune_ok \in BOOLEAN, cmd \in CommandRuns(max_failing) :
         /\ remediation_results' =
               Append(remediation_results, ClearDiskSpace(docker_client, prune_ok, cmd))
         /\ completed' = ClearDiskCompleted(docker_client, prune_ok, cmd)
    /\ prims' = Append(prims, [kind |-> "disk", target |-> "cleanup"])
    /\ pc' = "return"
    /\ UNCHANGED << monitoring_enabled, config, earlier, alerts, tick, remediating, alert_data, diagnosis,
                    observed, notification_results, attempted, analysis_result,
                    remediation_result, containers, todo, signalled, notifications,
                    incidents_log, verified, repoll, events, journal, aborted, remediation_outcome, incidents >>

\* execute_remediation, lines 217-221: the aggregated outcome, handed back to
\* handle_alert (lines 129-134).
Outcome(results) ==
    [success |-> AnySucceeded(results), remediation_results |-> results]

ExecuteRemediationReturn ==
    /\ pc = "return"
    /\ remediation_result' = Outcome(remediation_results)
    /\ remediation_outcome' = IF AnySucceeded(remediation_results) THEN "succeeded"
                                                                   ELSE "failed"
    /\ events' = Append(events, "remediation_end")
    /\ journal' = Append(journal,
                         IF AnySucceeded(remediation_results)
                           THEN LogRecord("INFO", "remediation_successful")
                           ELSE LogRecord("WARNING", "remediation_failed_or_skipped"))
    /\ remediating' = remediating \ {incidents}
    /\ pc' = "notify"
    /\ UNCHANGED << monitoring_enabled, config, earlier, alerts, tick, alert_data, trail, analysis_result,
                    containers, todo, remediation_results, prims, signalled,
                    notifications, incidents_log, verified, repoll, aborted, incidents >>

\* The line notifier.log_incident appends to incidents.log: the alert, and
\* the analysis and the remediation outcome, kept here as present or null.
LogLine(alert, analysis, remediation) ==
    [alert |-> alert.type,
     analysis |-> analysis # NoneVal,
     remediation |-> remediation # NoneVal]

\* What a chat delivery can do: deliver, be refused by the API (SlackApiError,
\* caught in send_slack_notification), or fail in any other way (not caught).
SlackOutcomes == {"sent", "api_error", "fault"}

\* send_slack_notification, lines 97-99: without a client nothing is posted.
SlackAttempts == IF slack_client THEN SlackOutcomes ELSE {"no_client"}

\* send_webhook_notification, lines 117-148: the post is answered with 200, is
\* answered with another status, raises a RequestException (caught), or fails
\* in any other way (not caught); without an URL nothing is posted.
WebhookOutcomes == {"delivered", "status_error", "request_error", "fault"}
WebhookAttempts == IF webhook_url THEN WebhookOutcomes ELSE {"no_url"}

\* send_notification, lines 170-198: the channels in the order they are
\* tried.  raised tells that an exception left the method; then nothing is
\* returned and the channels after the failing one are not tried.
SendNotificationRun(slack, webhook, log_ok) ==
    LET tried_chat == IF slack = "no_client" THEN << >> ELSE <<"slack">>
        tried_hook == IF webhook = "no_url" THEN << >> ELSE <<"webhook">>
    IN  IF slack = "fault"
          THEN [raised |-> TRUE, attempted |-> tried_chat, results |-> NoneVal]
        ELSE IF webhook = "fault"
          THEN [raised |-> TRUE, attempted |-> tried_chat \o tried_hook, results |-> NoneVal]
        ELSE [raised |-> FALSE,
              attempted |-> tried_chat \o tried_hook \o <<"log">>,
              results |-> [slack |-> slack = "sent",
                           webhook |-> webhook = "delivered",
                           log |-> log_ok]]

\* handle_alert, lines 136-144, with notifier.send_notification (lines
\* 170-198): chat delivery when a client is configured, the webhook when an
\* URL is configured, then log_incident, then the console print.
SendNotification ==
    /\ pc = "notify"
    /\ \E slack \in SlackAttempts, webhook \in WebhookAttempts, log_ok \in BOOLEAN :
         LET run == SendNotificationRun(slack, webhook, log_ok)
         IN  /\ attempted' = run.attempted
             /\ notification_results' = run.results
             /\ IF run.raised
                  THEN /\ pc' = "except"
                       /\ journal' = Append(journal, LogRecord("INFO", "sending_notifications"))
                       /\ UNCHANGED << notifications, incidents_log, events >>
                  ELSE /\ notifications' = notifications + 1
                       /\ incidents_log' =
                            IF log_ok
                              THEN Append(incidents_log,
                                          LogLine(alert_data, analysis_result, remediation_result))
                              ELSE incidents_log
                       /\ events' = events \o (IF log_ok THEN <<"log">> ELSE << >>)
                                           \o <<"notify">>
                       /\ journal' = journal \o << LogRecord("INFO", "sending_notifications"),
                                                  LogRecord("INFO", "notifications_sent") >>
                       /\ pc' = "notified"
    /\ UNCHANGED << monitoring_enabled, config, earlier, alerts, tick, remediating, alert_data, completed, observed,
                    diagnosis, analysis_result, remediation_result, containers, todo,
                    remediation_results, prims, signalled, verified, repoll, aborted,
                    remediation_outcome, incidents >>

RemediationAttempted == remediation_result # NoneVal
RemediationSucceeded ==
    remediation_result # NoneVal /\ Get(remediation_result, "success", FALSE)

\* handle_alert, lines 146-148: the stabilization delay before verification.
StabilizationDelay ==
    /\ pc = "notified"
    /\ RemediationSucceeded
    /\ events' = Append(events, "delay")
    /\ UNCHANGED journal
    /\ pc' = "verify"
    /\ UNCHANGED << monitoring_enabled, config, earlier, alerts, tick, remediating, alert_data, trail, analysis_result,
                    remediation_result, containers, todo, remediation_results, prims,
                    signalled, notifications, incidents_log, verified, repoll, aborted, remediation_outcome,
                    incidents >>

\* handle_alert is left, by return or through its except clause: control is
\* back in the loop of monitor_system and the names local to handle_alert and
\* execute_remediation are gone, and with them the trail of what the
\* primitives did step by step; alert, the loop variable, stays bound.
BackInLoop ==
    /\ pc' = "for_alert"
    /\ analysis_result' = NoneVal
    /\ remediation_result' = NoneVal
    /\ containers' = NoneVal
    /\ todo' = << >>
    /\ remediation_results' = << >>
    /\ completed' = << >>
    /\ observed' = << >>
    /\ diagnosis' = "none"
    /\ notification_results' = NoneVal
    /\ attempted' = << >>
    /\ UNCHANGED << monitoring_enabled, config, earlier, alerts, remediating, breaches, polled,
                    alert_data, incidents_log, incidents >>

\* handle_alert, line 147 not taken: the handler returns to the loop.
HandleAlertReturn ==
    /\ pc = "notified"
    /\ ~RemediationSucceeded
    /\ BackInLoop
    /\ UNCHANGED handled
    /\ UNCHANGED << prims, signalled, notifications, verified, repoll, events, journal, aborted,
                    remediation_outcome >>

\* verify_remediation, lines 163-170: the loop over the fresh alerts.
ResolvedNoAlerts(new_alerts, alert_type) == new_alerts = << >>
Resolved(new_alerts, alert_type) ==
    \A i \in 1..Len(new_alerts) : new_alerts[i].type # alert_type

\* The answers of the metric source at the re-poll.  A failed query is
\* answered with 0.0, which check_anomalies treats as it treats the reading at
\* the threshold, so for the classes other than the alert's own the failed
\* query is not told apart from that reading.
RepollAnswers(class, readings) ==
    IF class = alert_data.type THEN Polls(readings)
                               ELSE { p \in Polls(readings) : p.ok }

\* verify_remediation, lines 154-183, called at line 149: the re-poll, the
\* comparison with the original alert and the chat message with the result.
VerifyRemediation ==
    /\ pc = "verify"
    /\ \E c \in RepollAnswers("CPU_SPIKE", CpuReadings),
          m \in RepollAnswers("MEMORY_SPIKE", MemoryReadings),
          d \in RepollAnswers("DISK_SPIKE", DiskReadings),
          n \in RepollAnswers("NETWORK_SPIKE", NetworkReadings) :
         LET new_alerts == CheckAnomalies(MetricValue(c), MetricValue(m),
                                          MetricValue(d), MetricValue(n))
             alert_type == alert_data.type
             own == ReadingOf(alert_type, c, m, d, n)
         IN  /\ verified' = IF Resolved(new_alerts, alert_type) THEN "resolved" ELSE "persists"
             /\ repoll' =
                  [failed |-> ~own.ok,
                   same |-> own.ok /\ own.raw > ThresholdOf(alert_type),
                   others |-> AlertTypes(new_alerts) \ {alert_type} # {}]
    /\ \E slack \in SlackAttempts :
         /\ notifications' = IF slack = "sent" THEN notifications + 1 ELSE notifications
         /\ journal' = journal
               \o << LogRecord("INFO", "verifying_remediation"),
                     IF verified' = "resolved"
                       THEN LogRecord("INFO", "verification_successful")
                       ELSE LogRecord("WARNING", "verification_failed") >>
               \o (IF slack = "fault"
                     THEN << LogRecord("ERROR", "error_during_verification") >>
                     ELSE << >>)
    /\ events' = Append(events, "repoll")
    /\ BackInLoop
    /\ UNCHANGED handled
    /\ UNCHANGED << prims, signalled, aborted, remediation_outcome >>

HandleAlertExceptEscapes ==
    /\ pc = "except"
    /\ aborted' = TRUE
    /\ pc' = "exited"
    /\ UNCHANGED << monitoring_enabled, config, earlier, alerts, tick, remediating, trail, alert_data,
                    analysis_result, remediation_result, containers, todo,
                    remediation_results, prims, signalled, notifications, incidents_log,
                    verified, repoll, events, journal, remediation_outcome, incidents >>
\* handle_alert, lines 151-152: the except clause logs the error and returns.
HandleAlertExcept ==
    /\ pc = "except"
    /\ aborted' = TRUE
    /\ handled' = [handled EXCEPT ![Len(handled)].failed = TRUE]
    /\ journal' = Append(journal, LogRecord("ERROR", "error_handling_alert"))
    /\ BackInLoop
    /\ UNCHANGED << prims, signalled, notifications, verified, repoll, events,
                    remediation_outcome >>

Next ==
    \/ MonitorSystem(MaxIncidents)
    \/ StopMonitoring
    \/ ForAlert
    \/ AnalyzeIncident
    \/ SkipRemediation
    \/ ExecuteRemediation
    \/ ListContainers(LoopContainers)
    \/ RestartDockerContainer
    \/ KillHighCpu(LoopProcs)
    \/ ClearDisk(LoopFailing)
    \/ ExecuteRemediationReturn
    \/ SendNotification
    \/ StabilizationDelay
    \/ HandleAlertReturn
    \/ VerifyRemediation
    \/ HandleAlertExcept

Spec == Init /\ [][Next]_vars

(* ------------------- the loop under fair scheduling ------------------- *)
\* The steps of the agent thread: everything but the call of stop_monitoring,
\* which comes from outside.
Thread ==
    \/ MonitorSystem(LiveIncidents)
    \/ ForAlert
    \/ AnalyzeIncident
    \/ SkipRemediation
    \/ ExecuteRemediation
    \/ ListContainers(LoopContainers)
    \/ RestartDockerContainer
    \/ KillHighCpu(LoopProcs)
    \/ ClearDisk(LoopFailing)
    \/ ExecuteRemediationReturn
    \/ SendNotification
    \/ StabilizationDelay
    \/ HandleAlertReturn
    \/ VerifyRemediation
    \/ HandleAlertExcept

\* start_monitoring, lines 198-201: the thread keeps calling run_pending, and
\* every call the handlers make returns or raises.
NextLive == Thread \/ StopMonitoring

SpecLive == Init /\ [][NextLive]_vars /\ WF_vars(Thread)

(* ------------------------ stopping the agent -------------------------- *)
\* stop_monitoring called while handle_alert is running (the call can only
\* come from outside the agent thread).
StopMonitoringInFlight ==
    /\ monitoring_enabled
    /\ pc \notin {"idle", "for_alert", "exited"}
    /\ monitoring_enabled' = FALSE
    /\ UNCHANGED << config, earlier, pc, alerts, tick, remediating, incident, incidents_log, incidents >>

\* start_monitoring, lines 198-204: Ctrl+C, the way main tells the user to
\* stop monitoring.  KeyboardInterrupt is not an Exception: it passes the
\* except clauses of verify_remediation, handle_alert and monitor_system
\* wherever the thread is, and start_monitoring returns.
KeyboardInterrupt ==
    /\ pc # "exited"
    /\ pc' = "exited"
    /\ UNCHANGED << monitoring_enabled, config, earlier, alerts, tick, remediating, incident,
                    incidents_log, incidents >>

NextStop == Next \/ StopMonitoringInFlight \/ KeyboardInterrupt

SpecStop == Init /\ [][NextStop]_vars

\* The agent configured with "auto_remediation": false (line 38), so that
\* handle_alert goes from the analysis straight to the notification, and
\* stop_monitoring called at any moment of a tick.
InitStopFlag == Init /\ ~auto_remediation_enabled

NextStopFlag ==
    \/ MonitorSystem(MaxIncidents)
    \/ StopMonitoring
    \/ StopMonitoringInFlight
    \/ ForAlert
    \/ AnalyzeIncident
    \/ SkipRemediation
    \/ SendNotification
    \/ HandleAlertReturn
    \/ HandleAlertExcept

SpecStopFlag == InitStopFlag /\ [][NextStopFlag]_vars

(* --------------- the remediation engine on its own -------------------- *)
\* One alert of each class, as check_anomalies builds it.
SomeAlerts ==
    { CheckAnomalies(81, 0, 0, 0)[1], CheckAnomalies(0, 86, 0, 0)[1],
      CheckAnomalies(0, 0, 91, 0)[1], CheckAnomalies(0, 0, 0, 1000001)[1] }

\* handle_alert about to call execute_remediation with any verdict.
InitRemediation ==
    /\ monitoring_enabled = TRUE
    /\ auto_remediation_enabled = TRUE
    /\ docker_client \in BOOLEAN
    /\ slack_client = FALSE
    /\ webhook_url = FALSE
    /\ thresholds = DefaultThresholds
    /\ pc = "remediate"
    /\ alerts = << >>
    /\ alert_data \in SomeAlerts
    /\ \E v \in Verdicts :
         analysis_result =
           [k \in DOMAIN v \cup {"alert_data"} |->
              IF k = "alert_data" THEN alert_data ELSE v[k]]
    /\ remediation_result = NoneVal
    /\ containers = NoneVal
    /\ todo = << >>
    /\ remediation_results = << >>
    /\ prims = << >>
    /\ signalled = << >>
    /\ notifications = 0
    /\ incidents_log = << >>
    /\ verified = "none"
    /\ repoll = NoneVal
    /\ events = <<"analysis">>
    /\ journal = JournalAfterAnalysis
    /\ aborted = FALSE
    /\ remediation_outcome = "none"
    /\ completed = << >>
    /\ observed = << >>
    /\ diagnosis = "object"
    /\ notification_results = NoneVal
    /\ attempted = << >>
    /\ remediating = {}
    /\ breaches = {alert_data.type}
    /\ handled = << [type |-> alert_data.type, failed |-> FALSE] >>
    /\ earlier = NoneVal
    /\ polled = NoneVal
    /\ incidents = 1

NextRemediation ==
    \/ ExecuteRemediation
    \/ ListContainers(MaxContainers)
    \/ RestartDockerContainer
    \/ KillHighCpu(MaxProcs)
    \/ ClearDisk(Len(TempCommands))
    \/ ExecuteRemediationReturn

SpecRemediation == InitRemediation /\ [][NextRemediation]_vars

(* ------------------- one tick under any configuration ---------------- *)
\* The thresholds a configuration file can hold: for each class the value the
\* monitor is built with, one below it and one above it.
ConfiguredThresholds ==
    [CPU_SPIKE : {79, 80, 81}, MEMORY_SPIKE : {84, 85, 86}, DISK_SPIKE : {89, 90, 91},
     NETWORK_SPIKE : {999999, 1000000, 1000001}]

\* OpsBotAgent.__init__, lines 16-40, with any thresholds in the configuration.
InitThresholds ==
    /\ monitoring_enabled = TRUE
    /\ auto_remediation_enabled = TRUE
    /\ docker_client = FALSE
    /\ slack_client = FALSE
    /\ webhook_url = FALSE
    /\ thresholds \in ConfiguredThresholds
    /\ pc = "idle"
    /\ alerts = << >>
    /\ alert_data = NoneVal
    /\ analysis_result = NoneVal
    /\ remediation_result = NoneVal
    /\ containers = NoneVal
    /\ todo = << >>
    /\ remediation_results = << >>
    /\ prims = << >>
    /\ signalled = << >>
    /\ notifications = 0
    /\ incidents_log = << >>
    /\ verified = "none"
    /\ repoll = NoneVal
    /\ events = << >>
    /\ journal = << >>
    /\ aborted = FALSE
    /\ remediation_outcome = "none"
    /\ completed = << >>
    /\ observed = << >>
    /\ diagnosis = "none"
    /\ notification_results = NoneVal
    /\ attempted = << >>
    /\ remediating = {}
    /\ breaches = {}
    /\ handled = << >>
    /\ earlier = NoneVal
    /\ polled = NoneVal
    /\ incidents = 0

NextThresholds == MonitorSystem(Cardinality(AlertClasses))

SpecThresholds == InitThresholds /\ [][NextThresholds]_vars

(* ------------------ a collaborator that never answers ----------------- *)
\* The positions where the thread is inside subprocess.run called without a
\* timeout: the log collection of analyze_incident (analyzer.py lines 21, 41,
\* 105), the process listing and the kill of the sweep (remediation.py lines
\* 100, 117), the temp commands of the cleanup (line 160).
UnboundedCalls == {"analyze", "kill", "disk"}

\* subprocess.run(..., timeout=None) waits for the child to exit: when the
\* child never exits the call neither returns nor raises.
NeverResponds ==
    /\ pc \in UnboundedCalls
    /\ pc' = "blocked"
    /\ UNCHANGED << monitoring_enabled, config, earlier, alerts, tick, remediating, incident,
                    incidents_log, incidents >>

ThreadOrBlocked == Thread \/ NeverResponds

NextBlocking == ThreadOrBlocked \/ StopMonitoring

SpecBlocking == Init /\ [][NextBlocking]_vars /\ WF_vars(ThreadOrBlocked)

(* ---------------- the engine on a host with many processes ----------- *)
NextBlast ==
    \/ ExecuteRemediation
    \/ ListContainers(MaxContainers)
    \/ RestartDockerContainer
    \/ KillHighCpuOver(LongListings(MaxCandidates), {"accepted", "rejected"})
    \/ ClearDisk(LoopFailing)
    \/ ExecuteRemediationReturn

SpecBlast == InitRemediation /\ [][NextBlast]_vars

(* ------------- execute_remediation called a second time -------------- *)
\* The primitives of a run that act on the host, in order.
RECURSIVE Acting(_)
Acting(ps) ==
    IF ps = << >> THEN << >>
    ELSE IF Head(ps).kind = "list" THEN Acting(Tail(ps))
    ELSE <<Head(ps)>> \o Acting(Tail(ps))

\* What a run of execute_remediation decided: whether it stopped at the gate,
\* the actions it took in order, and the listing it worked from.
Decision ==
    [choice |-> IF remediation_outcome = "skipped" THEN "skip" ELSE "attempt",
     actions |-> Acting(prims),
     containers |-> containers,
     returned |-> pc = "notify"]

\* handle_alert, lines 128-129, reached again with an equal alert and an equal
\* verdict, on the same engine: the run before has returned or raised, and its
\* locals are gone.
DecideAgain ==
    /\ pc \in {"notify", "except"}
    /\ earlier = NoneVal
    /\ earlier' = Decision
    /\ pc' = "remediate"
    /\ remediation_result' = NoneVal
    /\ containers' = NoneVal
    /\ todo' = << >>
    /\ remediation_results' = << >>
    /\ prims' = << >>
    /\ signalled' = << >>
    /\ completed' = << >>
    /\ observed' = << >>
    /\ events' = <<"analysis">>
    /\ journal' = JournalAfterAnalysis
    /\ remediation_outcome' = "none"
    /\ remediating' = {}
    /\ UNCHANGED << monitoring_enabled, config, alerts, tick, alert_data, analysis_result,
                    diagnosis, notification_results, attempted, notifications,
                    incidents_log, verified, repoll, aborted, incidents >>

NextDecision ==
    \/ ExecuteRemediation
    \/ ListContainers(MaxContainers)
    \/ RestartDockerContainer
    \/ KillHighCpu(LoopProcs)
    \/ ClearDisk(LoopFailing)
    \/ ExecuteRemediationReturn
    \/ DecideAgain

SpecDecision == InitRemediation /\ [][NextDecision]_vars

(* ------------------ the notification step on its own ------------------ *)
\* What handle_alert can hold as remediation outcome when it notifies.
NotifiedOutcomes ==
    { NoneVal,
      [success |-> FALSE, message |-> "requires_human", reason |-> "low_confidence_or_human"],
      Outcome(<< >>),
      Outcome(<< RestartResult("c1", "running") >>) }

\* handle_alert about to call send_notification, with any channel setup.
InitNotification ==
    /\ monitoring_enabled = TRUE
    /\ auto_remediation_enabled = TRUE
    /\ docker_client = FALSE
    /\ slack_client \in BOOLEAN
    /\ webhook_url \in BOOLEAN
    /\ thresholds = DefaultThresholds
    /\ pc = "notify"
    /\ alerts = << >>
    /\ alert_data \in SomeAlerts
    /\ \E v \in Verdicts :
         analysis_result =
           [k \in DOMAIN v \cup {"alert_data"} |->
              IF k = "alert_data" THEN alert_data ELSE v[k]]
    /\ remediation_result \in NotifiedOutcomes
    /\ containers = NoneVal
    /\ todo = << >>
    /\ remediation_results = << >>
    /\ prims = << >>
    /\ signalled = << >>
    /\ notifications = 0
    /\ incidents_log = << >>
    /\ verified = "none"
    /\ repoll = NoneVal
    /\ events = <<"analysis">>
    /\ journal = JournalAfterAnalysis
    /\ aborted = FALSE
    /\ remediation_outcome = "none"
    /\ completed = << >>
    /\ observed = << >>
    /\ diagnosis = "object"
    /\ notification_results = NoneVal
    /\ attempted = << >>
    /\ remediating = {}
    /\ breaches = {alert_data.type}
    /\ handled = << [type |-> alert_data.type, failed |-> FALSE] >>
    /\ earlier = NoneVal
    /\ polled = NoneVal
    /\ incidents = 1

NextNotification == SendNotification

SpecNotification == InitNotification /\ [][NextNotification]_vars

(* ============================ properties ============================== *)
\* An incident is over when its handler is back in the loop of the tick.
Terminal == pc = "for_alert" /\ alert_data # NoneVal

\* The verdict as the claims read it, field by field.
LowOrHuman(a) ==
    \/ "confidence" \in DOMAIN a /\ a.confidence = "LOW"
    \/ "requires_human_intervention" \in DOMAIN a /\ a.requires_human_intervention
PassesGate(a) ==
    /\ "confidence" \in DOMAIN a /\ a.confidence \in {"HIGH", "MEDIUM"}
    /\ "requires_human_intervention" \in DOMAIN a /\ ~a.requires_human_intervention

Returned == remediation_result # NoneVal
HasSteps == Returned /\ "remediation_results" \in DOMAIN remediation_result

\* C1: for every alert class, a verdict with confidence LOW or with the
\* requires-human flag set makes execute_remediation invoke no remediation
\* primitive (no listing, restart, kill sweep or disk cleanup) and return a
\* result that is not succeeded.
C1_GateBlocksEveryPrimitive ==
    LowOrHuman(analysis_result) =>
        /\ prims = << >>
        /\ signalled = << >>
        /\ remediation_results = << >>
        /\ pc \in {"remediate", "notify"}
        /\ Returned => ~remediation_result.success

C1_Witness ==
    /\ LowOrHuman(analysis_result)
    /\ alert_data.type = "CPU_SPIKE"
    /\ Returned
    /\ pc = "notify"

\* The names of the process listing that contain, in any letter case, one of
\* systemd, kernel, init.
ProtectedProcNames ==
    { <<"s","y","s","t","e","m","d">>, <<"/","I","n","i","t">>,
      <<"k","e","r","n","e","l","-","x">> }

\* C2: in every kill sweep, whatever the candidate (pid, name) pairs, kill is
\* never run on a process whose name matches the protected-name list.
C2_NoProtectedProcessSignalled ==
    \A i \in 1..Len(signalled) : signalled[i].name \notin ProtectedProcNames

\* A sweep that skipped its first candidate and signalled the second.
C2_Witness ==
    /\ Len(signalled) = 1
    /\ signalled[1].pid = 2
    /\ prims # << >> /\ prims[Len(prims)].kind = "kill"

\* C3: execute_remediation never raises: a fault of a remediation collaborator
\* at any point, the listing of the running containers included, becomes a
\* failed step result, and the remaining steps (for a CPU alert, the kill
\* sweep) are still attempted.
C3_ExecuteRemediationNeverRaises ==
    /\ pc # "except"
    /\ (pc = "notify" /\ PassesGate(analysis_result) /\ alert_data.type = "CPU_SPIKE")
          => (prims # << >> /\ prims[Len(prims)].kind = "kill")

\* C4: every incident that reaches a terminal state has produced exactly one
\* notification, never zero and never two.
C4_ExactlyOneNotification == Terminal => notifications = 1

\* C5: when the verification re-poll of the alert's own metric fails, the
\* incident is not reported as resolved.
C5_FailedRepollNotResolved ==
    (repoll # NoneVal /\ repoll.failed) => verified # "resolved"

\* C6: the outcome execute_remediation returns is succeeded exactly when at
\* least one step result is succeeded, and it carries the step results as
\* they were collected; with no step, succeeded is false and the list empty.
C6_SucceededIffSomeStepSucceeded ==
    (pc = "notify" /\ HasSteps) =>
        /\ remediation_result.remediation_results = remediation_results
        /\ remediation_result.success =
             (\E i \in 1..Len(remediation_results) :
                 "success" \in DOMAIN remediation_results[i]
                 /\ remediation_results[i].success)
        /\ remediation_results = << >> => ~remediation_result.success

\* A returned outcome with a failed step and a succeeded step.
C6_Witness ==
    /\ pc = "notify" /\ HasSteps
    /\ Len(remediation_results) = 2
    /\ ~remediation_results[1].success
    /\ remediation_results[2].success
    /\ remediation_result.success

\* A returned outcome with no step at all.
C6_WitnessEmpty ==
    /\ pc = "notify" /\ HasSteps
    /\ remediation_results = << >>
    /\ ~remediation_result.success

VerificationStarted ==
    pc = "verify" \/ verified # "none" \/ repoll # NoneVal

\* C8: an incident holds a remediation outcome only if it holds a verdict,
\* verification is started only if the outcome is present and succeeded, and
\* an incident whose outcome is not succeeded ends without a re-poll.
C8_OutcomeNeedsVerdictVerificationNeedsSuccess ==
    /\ remediation_result # NoneVal => analysis_result # NoneVal
    /\ remediation_outcome # "none" => "analysis" \in Range(events)
    /\ remediation_result # NoneVal =>
          (remediation_outcome = "succeeded") = remediation_result.success
    /\ pc = "verify" => (remediation_result # NoneVal /\ remediation_result.success)
    /\ VerificationStarted => remediation_outcome = "succeeded"
    /\ (Terminal /\ remediation_outcome # "succeeded")
          => (repoll = NoneVal /\ verified = "none" /\ "repoll" \notin Range(events))

\* An incident whose attempted remediation failed, over without a re-poll.
C8_Witness ==
    /\ Terminal
    /\ remediation_outcome = "failed"
    /\ \E i \in 1..Len(prims) : prims[i].kind = "restart"
    /\ repoll = NoneVal

\* An incident in verification.
C8_WitnessVerifying ==
    /\ pc = "verify"
    /\ remediation_result # NoneVal /\ remediation_result.success

\* C9: verification says resolved exactly when the re-poll shows no breach of
\* the class of the original alert; breaches of other classes do not matter.
C9_ResolvedIffNoSameClassBreach ==
    verified # "none" =>
        /\ repoll # NoneVal
        /\ (verified = "resolved") = ~repoll.same
        /\ (verified = "persists") = repoll.same

\* Resolved although another class is in breach at the re-poll.
C9_Witness ==
    /\ verified = "resolved"
    /\ repoll # NoneVal /\ repoll.others /\ ~repoll.failed

\* Position of a step in the history of the incident (0 when absent).
Pos(e) == IF \E i \in 1..Len(events) : events[i] = e
            THEN CHOOSE i \in 1..Len(events) : events[i] = e
            ELSE 0
Before(a, b) == Pos(b) > 0 => (Pos(a) > 0 /\ Pos(a) < Pos(b))

\* C10: the steps of one incident run in strict sequence (analysis, then
\* remediation, then the stabilization delay, then the re-poll), and the
\* notification and the log append come only at the terminal state: for an
\* incident whose remediation succeeded, not before the re-poll.
C10_NotificationOnlyAtTerminalState ==
    /\ Before("analysis", "remediation_start")
    /\ Before("remediation_start", "remediation_end")
    /\ Before("remediation_end", "delay")
    /\ Before("delay", "repoll")
    /\ remediation_outcome = "succeeded" =>
          (Before("repoll", "notify") /\ Before("repoll", "log"))

\* The kill sweep was the last primitive of a remediation that has returned.
KillStepRecorded ==
    /\ pc = "notify"
    /\ prims # << >> /\ prims[Len(prims)].kind = "kill"
    /\ remediation_results # << >>
KillStep == remediation_results[Len(remediation_results)]

\* C11: the process-kill step is recorded as succeeded if and only if a
\* termination signal was accepted; a sweep whose candidates are all
\* protected, or whose signals are all rejected, is recorded as failed.
C11_KillSucceededIffSignalAccepted ==
    KillStepRecorded =>
        (KillStep.success <=> \E i \in 1..Len(signalled) : signalled[i].accepted)

\* The disk cleanup was the primitive of a remediation that has returned.
DiskStepRecorded ==
    /\ pc = "notify"
    /\ prims # << >> /\ prims[Len(prims)].kind = "disk"
    /\ remediation_results # << >>
DiskStep == remediation_results[Len(remediation_results)]

\* The sub-operations in the order the claim gives: pruning, then the temp
\* commands.
CleanupOrder == <<"docker_cleanup">> \o TempCommands
Rank(op) == CHOOSE i \in 1..Len(CleanupOrder) : CleanupOrder[i] = op

\* C12: ClearDisk runs container pruning first and the temp cleanup after it,
\* and is recorded as succeeded if and only if at least one sub-operation
\* completed: failed when all failed, succeeded when one completed although a
\* later one faulted.
C12_ClearDiskSucceededIffSomeCompleted ==
    DiskStepRecorded =>
        /\ \A i, j \in 1..Len(completed) :
              i < j => Rank(completed[i]) < Rank(completed[j])
        /\ DiskStep.success <=> completed # << >>

\* The diagnostic backend failed or gave an answer that is not a verdict.
DiagnosisFailed == diagnosis \in {"error", "not_object"}

\* C13: the diagnostic step never raises: when the backend fails or returns an
\* unusable answer, analysis yields the fallback verdict (confidence LOW,
\* requires-human true), and no remediation action is attempted for the incident.
C13_DiagnosisAlwaysYieldsVerdict ==
    DiagnosisFailed =>
        /\ pc # "except"
        /\ analysis_result # NoneVal
        /\ Get(analysis_result, "confidence", "NONE") = "LOW"
        /\ Get(analysis_result, "requires_human_intervention", FALSE)
        /\ prims = << >>

IsPrefix(a, b) == Len(a) <= Len(b) /\ SubSeq(b, 1, Len(a)) = a

\* C14: the incident log is append-only (entries written earlier stay
\* unchanged and in order), and every alert handed to the orchestrator has
\* added exactly one entry when its incident is over, also when a collaborator
\* failed during the incident.
C14_LogAppendOnlyOneEntryPerAlert ==
    /\ [][IsPrefix(incidents_log, incidents_log')]_vars
    /\ [](Terminal => Len(incidents_log) = incidents)

\* The alerts of the tick: those already handed to handle_alert, then those
\* still waiting in the loop of monitor_system.
TickAlerts == [i \in 1..Len(handled) |-> handled[i].type]
                 \o [i \in 1..Len(alerts) |-> alerts[i].type]

\* C15: on every tick each class whose reading breaches its threshold yields
\* exactly one alert, every alert of the tick is handed to handle_alert
\* exactly once as its own incident, and the tick goes on with the remaining
\* alerts when the handling of one alert failed.
C15_EveryBreachHandledOnce ==
    /\ [](pc # "idle" =>
            /\ Range(TickAlerts) = breaches
            /\ Len(TickAlerts) = Cardinality(breaches)
            /\ (pc # "for_alert" \/ handled # << >>) =>
                  (handled # << >> /\ alert_data # NoneVal
                   /\ handled[Len(handled)].type = alert_data.type))
    /\ [][(pc # "idle" /\ pc' = "idle") =>
            (alerts = << >> /\ Len(handled) = Cardinality(breaches))]_vars

\* Two breaches on one tick: the handling of the first alert failed and the
\* second alert has been handled through its notification.
C15_Witness ==
    /\ Cardinality(breaches) = 2
    /\ Len(handled) = 2
    /\ handled[1].failed
    /\ pc = "notified"

\* A collaborator failed during the tick: an exception reached the except
\* clause of handle_alert, a metric query of the re-poll failed, the
\* diagnostic backend failed, or the remediation did not succeed.
CollaboratorFailed ==
    \/ pc = "except"
    \/ aborted
    \/ repoll # NoneVal /\ repoll.failed
    \/ diagnosis = "error"
    \/ remediation_outcome = "failed"

\* C16: no failure of the metric source, the diagnostic provider, a
\* remediation primitive or the notification sink ends the monitor loop: after
\* the failure the thread is back in the loop, and unless monitoring is
\* switched off the next tick is executed.
C16_LoopSurvivesFailures ==
    /\ CollaboratorFailed ~> (pc = "idle")
    /\ (pc = "idle" /\ monitoring_enabled) ~> (pc = "for_alert" \/ ~monitoring_enabled)

\* A tick that found nothing, executed after an incident for which a
\* collaborator failed (the incident left no entry in the log).
C16_Witness ==
    /\ pc = "for_alert" /\ alerts = << >> /\ handled = << >>
    /\ incidents = 1
    /\ incidents_log = << >>

\* C17: the remediation steps of two different incidents are never executed
\* concurrently: at most one incident is in remediation, it is the incident
\* the thread is handling, and a remediation starts only when none is in
\* progress.
C17_RemediationsNeverOverlap ==
    /\ [](/\ Cardinality(remediating) <= 1
          /\ (pc \in RemediationPositions) = (remediating # {})
          /\ remediating # {} => remediating = {incidents})
    /\ [][(remediating' # remediating /\ remediating' # {}) => remediating = {}]_vars

\* The second incident is in remediation after the remediation of the first
\* has returned and has been logged.
C17_Witness ==
    /\ incidents = 2
    /\ remediating = {2}
    /\ prims # << >>
    /\ incidents_log # << >> /\ incidents_log[1].remediation

\* C18: when monitoring is stopped while incidents are in flight, every
\* incident already handed to handle_alert still reaches its terminal state
\* (the agent does not exit from inside a handler), and every remediation that
\* was started ends with a recorded outcome.
C18_StopLetsIncidentsFinish ==
    /\ [][pc' = "exited" => pc \in {"idle", "for_alert"}]_vars
    /\ []((~monitoring_enabled /\ Terminal /\ "remediation_start" \in Range(events))
            => remediation_outcome # "none")

\* The channels that are configured, in the order send_notification tries them.
ConfiguredChannels ==
    (IF slack_client THEN <<"slack">> ELSE << >>)
    \o (IF webhook_url THEN <<"webhook">> ELSE << >>)
    \o <<"log">>

\* C19: a delivery failure on one channel is non-fatal and recorded on its
\* own: however the chat or the webhook channel fails, send_notification does
\* not raise, the other channels and the incident-log write are still
\* attempted, and the result holds one delivery boolean per channel.
C19_ChannelFailureIsNonFatal ==
    pc # "notify" =>
        /\ pc # "except"
        /\ attempted = ConfiguredChannels
        /\ notification_results # NoneVal
        /\ DOMAIN notification_results = {"slack", "webhook", "log"}
        /\ \A ch \in DOMAIN notification_results : notification_results[ch] \in BOOLEAN

\* An incident for a NETWORK alert that has its verdict.
NetworkIncident ==
    /\ alert_data # NoneVal /\ alert_data.type = "NETWORK_SPIKE"
    /\ "analysis" \in Range(events)

\* C20: for a NETWORK alert, whatever the verdict holds, no remediation
\* primitive is invoked, no verification re-poll is made, the incident ends
\* without a remediation (skipped), and one notification is emitted.
C20_NetworkAlertSkippedAndNotifiedOnce ==
    NetworkIncident =>
        /\ prims = << >> /\ signalled = << >>
        /\ pc \notin {"list", "restart", "kill", "disk", "verify"}
        /\ repoll = NoneVal /\ verified = "none"
        /\ remediation_outcome # "succeeded"
        /\ Terminal => notifications = 1

\* A MEMORY alert whose verdict passes the gate.
MemoryPassesGate ==
    /\ alert_data # NoneVal /\ alert_data.type = "MEMORY_SPIKE"
    /\ analysis_result # NoneVal /\ PassesGate(analysis_result)

DiskHigh ==
    /\ auto_remediation_enabled
    /\ alert_data # NoneVal /\ alert_data.type = "DISK_SPIKE"
    /\ analysis_result # NoneVal
    /\ Get(analysis_result, "confidence", "NONE") = "HIGH"
    /\ ~Get(analysis_result, "requires_human_intervention", TRUE)

\* C22: for a DISK alert with a HIGH-confidence verdict that does not require
\* a human, the remediation is exactly one disk cleanup; when it succeeded the
\* verification runs, after the stabilization delay; and when the re-poll
\* shows disk below its threshold the incident ends resolved with one
\* notification emitted.
C22_DiskIncidentEndToEnd ==
    /\ []((DiskHigh /\ pc \in {"notify", "notified", "verify"}) =>
            /\ prims = << [kind |-> "disk", target |-> "cleanup"] >>
            /\ Len(remediation_results) = 1)
    /\ []((DiskHigh /\ RemediationSucceeded) => pc # "except")
    /\ [][(DiskHigh /\ pc = "verify") =>
            /\ events[Len(events)] = "delay"
            /\ (~repoll'.same /\ ~repoll'.failed) =>
                  (verified' = "resolved" /\ notifications' = 1)]_vars

\* The run of execute_remediation before this one returned, and this one has.
DecidedTwice == earlier # NoneVal /\ earlier.returned /\ pc = "notify"

InFlight == pc \notin {"idle", "for_alert"}

\* C24: every call of an external collaborator is bounded: a call that never
\* responds is treated as a failure of that call, and the incident still
\* reaches its terminal state.
C24_EveryIncidentEnds == InFlight ~> (pc = "for_alert")

\* C25: on each tick the reading of every class is compared against the
\* threshold configured for that class: whatever the configured thresholds, an
\* alert of a class is produced if and only if the reading of the class
\* breaches the configured value, and the alert carries that value.
C25_ConfiguredThresholdsAreUsed ==
    polled # NoneVal =>
        /\ \A t \in AlertClasses :
              t \in AlertTypes(alerts) <=>
                 (polled[t].ok /\ polled[t].raw > thresholds[t])
        /\ \A i \in 1..Len(alerts) : alerts[i].threshold = thresholds[alerts[i].type]

\* C26: a container-restart step is recorded as succeeded if and only if the
\* status of the container read after the settle delay is running; a container
\* that is not found gives a failed step, and the actions after it (the
\* remaining restarts, the kill sweep) are still executed.
C26_RestartSucceededIffRunning ==
    /\ Len(observed) <= Len(remediation_results)
    /\ \A i \in 1..Len(observed) :
          /\ remediation_results[i].success <=> observed[i] = "running"
          /\ observed[i] = "not_found" => remediation_results[i].message = "not_found"
    /\ (pc = "notify" /\ containers # NoneVal) =>
          /\ Len(observed) =
                Min(Len(containers.names), RestartCap(AlertTypeOf(analysis_result)))
          /\ alert_data.type = "CPU_SPIKE" => prims[Len(prims)].kind = "kill"

\* The first container was not found; the second was restarted and is
\* running, and the kill sweep came after the restarts.
C26_Witness ==
    /\ pc = "notify"
    /\ Len(observed) = 3
    /\ observed[1] = "not_found" /\ observed[2] = "running"
    /\ ~remediation_results[1].success /\ remediation_results[2].success
    /\ prims[Len(prims)].kind = "kill"

\* A record of the log that tells a state transition: it names the state
\* left, the state entered and the incident, and carries a timestamp.
IsTransitionEvent(e) ==
    /\ "asctime" \in DOMAIN e
    /\ "old_state" \in DOMAIN e
    /\ "new_state" \in DOMAIN e
    /\ "incident_id" \in DOMAIN e

\* C27: every state transition of an incident emits one structured event that
\* carries the old state, the new state, the incident id and a timestamp, and
\* the events of one incident follow the order of the state machine (each
\* event leaves the state the event before it entered).
C27_TransitionsEmitStructuredEvents ==
    /\ \A i \in 1..Len(journal) : IsTransitionEvent(journal[i])
    /\ \A i \in 1..(Len(journal) - 1) :
          /\ journal[i + 1].old_state = journal[i].new_state
          /\ journal[i + 1].incident_id = journal[i].incident_id

\* C28: with automated remediation disabled in the configuration, handling
\* an alert invokes no remediation primitive and makes no verification
\* re-poll, while the analysis is still performed and the notification and the
\* incident-log entry are still produced, with no remediation outcome.
C28_DisabledRemediationStillNotifies ==
    ~auto_remediation_enabled =>
        /\ prims = << >> /\ signalled = << >>
        /\ pc \notin RemediationPositions \cup {"verify"}
        /\ repoll = NoneVal /\ verified = "none"
        /\ remediation_result = NoneVal /\ remediation_outcome = "none"
        /\ Terminal =>
              /\ "analysis" \in Range(events)
              /\ notifications = 1
              /\ "log" \in Range(events)
              /\ incidents_log # << >>
              /\ ~incidents_log[Len(incidents_log)].remediation

\* The verdict lacks one of the two fields the gate reads.
LacksGateField(a) ==
    "confidence" \notin DOMAIN a \/ "requires_human_intervention" \notin DOMAIN a

\* execute_remediation went past the gate.
PastGate ==
    \/ pc \in RemediationPositions
    \/ prims # << >>
    \/ remediation_outcome \in {"failed", "succeeded"}

\* C29: the gate denies by default: a verdict that lacks the confidence field
\* is treated as LOW and one that lacks the requires-human field as
\* human-required, so nothing is attempted for it; execute_remediation goes
\* past the gate only when both fields are present, requires-human is false
\* and confidence is not LOW.
C29_GateDeniesByDefault ==
    /\ (analysis_result # NoneVal /\ LacksGateField(analysis_result)) =>
          /\ ~PastGate
          /\ Returned =>
                (~remediation_result.success /\ remediation_outcome = "skipped")
    /\ (analysis_result # NoneVal /\ PastGate) =>
          /\ "confidence" \in DOMAIN analysis_result
          /\ "requires_human_intervention" \in DOMAIN analysis_result
          /\ ~analysis_result.requires_human_intervention
          /\ analysis_result.confidence # "LOW"

\* A verdict with confidence HIGH and no requires-human field, stopped at the
\* gate.
C29_Witness ==
    /\ analysis_result # NoneVal
    /\ "requires_human_intervention" \notin DOMAIN analysis_result
    /\ Get(analysis_result, "confidence", "LOW") = "HIGH"
    /\ Returned /\ remediation_outcome = "skipped"
    /\ pc = "notify"

\* A verdict with both fields, past the gate.
C29_WitnessAttempt ==
    /\ PastGate
    /\ analysis_result # NoneVal /\ ~LacksGateField(analysis_result)
    /\ pc = "notify"

\* The restarts issued by this run of execute_remediation.
Restarts == { i \in 1..Len(prims) : prims[i].kind = "restart" }

\* C30: one remediation run restarts at most 3 containers for a CPU alert and
\* at most 2 for a MEMORY alert (none for the other classes), and one kill
\* sweep signals at most 5 processes, however many containers are running and
\* however many processes are above the CPU threshold.
C30_BlastRadiusIsBounded ==
    /\ Cardinality(Restarts) <=
          (CASE alert_data.type = "CPU_SPIKE" -> 3
             [] alert_data.type = "MEMORY_SPIKE" -> 2
             [] OTHER -> 0)
    /\ Cardinality({ i \in 1..Len(prims) : prims[i].kind = "kill" }) <= 1
    /\ Len(signalled) <= 5

\* Five containers listed and three restarted, then a sweep that signalled
\* the pids 1 to 5.
C30_Witness ==
    /\ pc = "notify"
    /\ containers # NoneVal /\ Len(containers.names) = 5
    /\ Cardinality(Restarts) = 3
    /\ Len(signalled) = 5
    /\ signalled[5].pid = 5 /\ signalled[5].accepted

\* C31: once monitoring has been stopped the flag stays off, and a tick that
\* starts with the flag off returns at once: no query is sent, no alert is
\* created and nothing of an incident, the log or the count changes.  The flag
\* is read nowhere else: while the alerts of a tick are pending the only way on
\* is to hand the first of them to handle_alert, the handler never touches the
\* pending alerts, and the thread is back idle only with none of them left,
\* whether the flag is on or off.
C31_StoppedTicksDoNothingAndTickInProgressFinishes ==
    /\ [][~monitoring_enabled => ~monitoring_enabled']_vars
    /\ [][(~monitoring_enabled /\ pc = "idle")
            => UNCHANGED << pc, alerts, tick, incident, incidents_log, incidents >>]_vars
    /\ [][(pc = "for_alert" /\ alerts # << >> /\ pc' # pc)
            => (/\ pc' = "analyze"
                /\ alert_data' = Head(alerts)
                /\ alerts' = Tail(alerts)
                /\ Len(handled') = Len(handled) + 1)]_vars
    /\ [][(pc \notin {"idle", "for_alert"}) => alerts' = alerts]_vars
    /\ [](pc = "idle" => alerts = << >> /\ polled = NoneVal)

\* Monitoring was stopped during a tick that found two alerts, and the second
\* of them has been handled up to its notification all the same.
C31_Witness ==
    /\ ~monitoring_enabled
    /\ pc = "notified"
    /\ Len(handled) = 2
    /\ alerts = << >>
    /\ notifications >= 1

====
